---------------------------- MODULE Spec2Model ----------------------------
(***************************************************************************)
(* Camera navigation and dual-projection switching of my-room.             *)
(*                                                                         *)
(* Real numbers are fixed-point integers: lengths, angles (radians) and    *)
(* zoom factors are counted in thousandths (Scale), pixels and             *)
(* milliseconds are plain integers.                                        *)
(***************************************************************************)
EXTENDS Integers, Sequences, FiniteSets, TLC

VARIABLES
  view,        \* Navigation.view          (navigation.ts:82)
  camera,      \* Navigation.camera        (navigation.ts:79)
  listeners,   \* listeners registered on window by the drag handlers
  lastOp,      \* the handler that ran last
  consumed,    \* what the last update read: the gesture deltas and its arguments
  events,      \* number of handlers run so far
  event,       \* the pointer-down event, while it is the last event
  gesture,     \* per pointer kind: idle, active, ended (up/end) or cancelled
  appended,    \* the deltas the handlers appended since the last update
  variant,     \* which DoubleCamera is running: part_003 ("single") or camera.ts ("double")
  mode,        \* DoubleCamera._mode
  perspective, \* DoubleCamera.perspective
  orthographic,            \* DoubleCamera.orthographic
  controls,                \* part_003: DoubleCamera._controls
  lastPerspectiveZoom,     \* part_003: DoubleCamera._lastPerspectiveZoom
  lastOrthoZoom,           \* part_003: DoubleCamera._lastOrthoZoom
  orthoControls,           \* camera.ts: DoubleCamera._orthoControls
  perspectiveControls,     \* camera.ts: DoubleCamera._perspectiveControls
  reconfigureControls,     \* camera.ts: whether DoubleCamera.reconfigureControls is set
  viewport,                \* the window's inner size
  call,                    \* the last call on the DoubleCamera and how it ended
  trip,                    \* a Perspective -> Orthographic -> Perspective round trip under way
  calls,                   \* number of calls so far
  clockKind,               \* which clock runs: digital-clock.ts or clock.ts
  clock,                   \* DigitalClock: _interval, _hours, _minutes
  timers,                  \* ids of the window's active intervals
  nextTimer,               \* the id the next setInterval returns
  panel,                   \* generalParams: Clock, Hours, Minutes
  userTime,                \* hours and minutes of new Date()
  clockOp,                 \* the last clock event and what it asked for
  clockSteps,              \* number of clock events so far
  paths,                   \* asyncLoadResources: the paths object
  loads,                   \* per leaf: the state of the promise loadAsync returned
  promises,                \* per (nested) paths object: the promise recursiveLoadPaths returned
  status,                  \* asyncLoadResources: currentStatus
  justLoaded               \* the onJustLoaded calls so far, in order

navVars == <<view, camera, listeners, lastOp, consumed, events, event, gesture,
             appended>>

camVars == <<variant, mode, perspective, orthographic, controls, lastPerspectiveZoom,
             lastOrthoZoom, orthoControls, perspectiveControls, reconfigureControls,
             viewport, call, trip, calls>>

clockVars == <<clockKind, clock, timers, nextTimer, panel, userTime, clockOp, clockSteps>>

loadVars == <<paths, loads, promises, status, justLoaded>>

vars == <<navVars, camVars, clockVars, loadVars>>

----------------------------------------------------------------------------
(* Fixed-point arithmetic                                                  *)

Scale == 10 ^ 3

Abs(a) == IF a < 0 THEN -a ELSE a

Sign(a) == IF a < 0 THEN -1 ELSE IF a > 0 THEN 1 ELSE 0

\* a / b rounded to the nearest integer, b > 0.
RoundDiv(a, b) ==
  IF a >= 0 THEN (2 * a + b) \div (2 * b) ELSE -((2 * (-a) + b) \div (2 * b))

Pi == 3142

TwoPi == 2 * Pi

\* The angle a (thousandths of a radian) brought into (-Pi, Pi].
WrapAngle(a) ==
  LET m == a % TwoPi
  IN  IF m > Pi THEN m - TwoPi ELSE m

\* sin of an angle in [-Pi/2, Pi/2], by its Taylor polynomial.
SinCore(a) ==
  LET x2 == RoundDiv(a * a, Scale)
      t3 == Scale - RoundDiv(x2, 42)
      t2 == Scale - RoundDiv(RoundDiv(x2, 20) * t3, Scale)
      t1 == Scale - RoundDiv(RoundDiv(x2, 6) * t2, Scale)
      r == RoundDiv(a * t1, Scale)
  IN  IF r > Scale THEN Scale ELSE IF r < -Scale THEN -Scale ELSE r

Sin(a) ==
  LET w == WrapAngle(a)
  IN  IF w > Pi \div 2 THEN SinCore(Pi - w)
      ELSE IF w < -(Pi \div 2) THEN SinCore(-Pi - w)
      ELSE SinCore(w)

Cos(a) == Sin(a + Pi \div 2)

\* The integer square root, by Newton's iteration.
RECURSIVE IsqrtIter(_, _)
IsqrtIter(n, x) ==
  LET y == (x + n \div x) \div 2
  IN  IF y >= x THEN x ELSE IsqrtIter(n, y)

Isqrt(n) == IF n <= 0 THEN 0 ELSE IsqrtIter(n, n)

\* atan of t in [0, 1] (t and the result in thousandths), by a minimax
\* polynomial with coefficients in millionths.
AtanUnit(t) ==
  LET t2 == RoundDiv(t * t, Scale)
      c4 == -85133 + RoundDiv(20835 * t2, Scale)
      c3 == 180141 + RoundDiv(c4 * t2, Scale)
      c2 == -330300 + RoundDiv(c3 * t2, Scale)
      c1 == 999866 + RoundDiv(c2 * t2, Scale)
  IN  RoundDiv(t * RoundDiv(c1, Scale), Scale)

\* Math.atan2(a, b), in (-Pi, Pi].
Atan2(a, b) ==
  LET aa == Abs(a)
      ab == Abs(b)
      base == IF aa = 0 /\ ab = 0 THEN 0
              ELSE IF aa <= ab THEN AtanUnit(RoundDiv(aa * Scale, ab))
              ELSE Pi \div 2 - AtanUnit(RoundDiv(ab * Scale, aa))
  IN  IF b >= 0 THEN (IF a < 0 THEN -base ELSE base)
      ELSE (IF a < 0 THEN base - Pi ELSE Pi - base)

\* Math.acos(c), c in [-1, 1].
Acos(c) == Atan2(Isqrt(Scale * Scale - c * c), c)

\* three/src/math/MathUtils.js clamp: Math.max(min, Math.min(max, value)).
Min2(a, b) == IF a < b THEN a ELSE b

Max2(a, b) == IF a > b THEN a ELSE b

clamp(value, min, max) == Max2(min, Min2(max, value))

----------------------------------------------------------------------------
(* Navigation (navigation.ts)                                              *)

Vec3(x, y, z) == [x |-> x, y |-> y, z |-> z]

Vec2(x, y) == [x |-> x, y |-> y]

\* Bounds of the explored inputs.
MaxEvents == 4

DeltaMillisSet == {0, 16, 300}

SmallestSides == {1000}

\* Pointer positions (clientX, clientY): a horizontal, a vertical and a
\* diagonal travel between them.
ClientPoints == { Vec2(100, 100), Vec2(200, 100), Vec2(200, 200) }

\* Mouse-down events: each button alone, and the primary button with a modifier.
MouseDowns ==
  { [button |-> 0, ctrlKey |-> FALSE, shiftKey |-> FALSE],
    [button |-> 1, ctrlKey |-> FALSE, shiftKey |-> FALSE],
    [button |-> 2, ctrlKey |-> FALSE, shiftKey |-> FALSE],
    [button |-> 0, ctrlKey |-> TRUE, shiftKey |-> FALSE],
    [button |-> 0, ctrlKey |-> FALSE, shiftKey |-> TRUE] }

WheelPixels == {-400, 50}

\* The constructor options explored: the defaults, and limits that leave
\* out the hard-coded initial angles and radius.
DefaultLimits ==
  [radius |-> [min |-> 1000, max |-> 5000],
   phi    |-> [min |-> 10, max |-> 1571],
   theta  |-> [min |-> -1571, max |-> 0]]

NarrowLimits ==
  [radius |-> [min |-> 2000, max |-> 4000],
   phi    |-> [min |-> 200, max |-> 1000],
   theta  |-> [min |-> -500, max |-> 0]]

\* Limits whose radius.min is above radius.max.
InvertedLimits ==
  [radius |-> [min |-> 4000, max |-> 2000],
   phi    |-> [min |-> 10, max |-> 1571],
   theta  |-> [min |-> -1571, max |-> 0]]

NavigationOptionsSet ==
  { [initialRadius |-> 5000, limits |-> DefaultLimits],
    [initialRadius |-> 5000, limits |-> NarrowLimits],
    [initialRadius |-> 5000, limits |-> InvertedLimits] }

CameraKinds == {"perspective", "orthographic"}

dragSensitivity == 1

\* zoom.sensitivity 0.005, in thousandths of a length per pixel.
zoomSensitivity == 5

\* spherical.smoothing 0.01 and target.smoothing 0.0025 per millisecond,
\* kept as their reciprocals.
sphericalSmoothingRecip == 100

targetSmoothingRecip == 400

setInitialView(options) ==
  LET sphericalCoords == [radius |-> options.initialRadius, phi |-> 1100, theta |-> -785]
      target == Vec3(0, 1300, 0)
  IN  [spherical |-> [value |-> sphericalCoords,
                      smoothed |-> sphericalCoords,
                      limits |-> options.limits],
       target |-> [value |-> target,
                   smoothed |-> target,
                   limits |-> [x |-> [min |-> -1000, max |-> 1000],
                               y |-> [min |-> 500, max |-> 3000],
                               z |-> [min |-> -1000, max |-> 1000]]],
       drag |-> [delta |-> Vec2(0, 0), previous |-> Vec2(0, 0), alternative |-> FALSE],
       zoom |-> [delta |-> 0]]

\* A camera as the constructor receives it: at the origin, not rotated, zoom 1.
\* up and right are the images of (0, 1, 0) and (-1, 0, 0) under its quaternion.
NewCamera(kind) ==
  [kind |-> kind, zoom |-> Scale, position |-> Vec3(0, 0, 0),
   up |-> Vec3(0, Scale, 0), right |-> Vec3(-Scale, 0, 0)]

\* Vector3.setFromSpherical.
setFromSpherical(s) ==
  LET sinPhiRadius == RoundDiv(Sin(s.phi) * s.radius, Scale)
  IN  Vec3(RoundDiv(sinPhiRadius * Sin(s.theta), Scale),
           RoundDiv(Cos(s.phi) * s.radius, Scale),
           RoundDiv(sinPhiRadius * Cos(s.theta), Scale))

\* Object3D.lookAt for a camera at target + setFromSpherical(s) looking at
\* target, read back as the images of (0, 1, 0) and (-1, 0, 0).
lookAtUp(s) ==
  LET d == setFromSpherical(s)
      sp == Sin(s.phi)
      cp == Cos(s.phi)
  IN  IF d.x = 0 /\ d.z = 0
      THEN IF d.y = 0 THEN Vec3(0, Scale, 0) ELSE Vec3(0, 0, -Sign(d.y) * Scale)
      ELSE Vec3(-Sign(sp) * RoundDiv(cp * Sin(s.theta), Scale),
                Abs(sp),
                -Sign(sp) * RoundDiv(cp * Cos(s.theta), Scale))

lookAtRight(s) ==
  LET d == setFromSpherical(s)
      sg == Sign(s.radius) * Sign(Sin(s.phi))
  IN  IF d.x = 0 /\ d.z = 0
      THEN Vec3(-Scale, 0, 0)
      ELSE Vec3(-sg * Cos(s.theta), 0, sg * Sin(s.theta))

\* (1 / camera.zoom) * 0.5 or radius * 0.1 (navigation.ts:123-126).  A zoom
\* below the resolution stands for the smallest representable magnitude.
zoomAdjustmentFactor(cam, radius) ==
  IF cam.kind = "orthographic"
  THEN LET z == IF cam.zoom = 0 THEN 1 ELSE cam.zoom
       IN  RoundDiv(Scale * Scale, 2 * Abs(z)) * Sign(z)
  ELSE RoundDiv(radius, 10)

\* v.multiplyScalar(pixels * 0.01 * factor), one component.
PanOffset(component, pixels, factor) ==
  RoundDiv(RoundDiv(component * pixels, 100) * RoundDiv(factor, 10), 100)

\* damped += (raw - damped) * smoothing * deltaMillis.
Smooth(damped, raw, recip, deltaMillis) ==
  damped + RoundDiv((raw - damped) * deltaMillis, recip)

\* A zoom that leaves the raw radius unclamped.
ApplyZoomUnclamped(v) ==
  [v EXCEPT !.spherical.value.radius = @ + v.zoom.delta * zoomSensitivity]

\* update, lines 114-121: the zoom delta moves the raw radius, then the clamp.
ApplyZoom(v) ==
  LET lim == v.spherical.limits.radius
      radius == v.spherical.value.radius + v.zoom.delta * zoomSensitivity
  IN  [v EXCEPT !.spherical.value.radius = clamp(radius, lim.min, lim.max)]

\* update, lines 129-159: the drag delta trucks the raw target.
ApplyPan(v, cam) ==
  LET f == zoomAdjustmentFactor(cam, v.spherical.value.radius)
      lim == v.target.limits
      t == v.target.value
      x == t.x + PanOffset(cam.up.x, v.drag.delta.y, f) + PanOffset(cam.right.x, v.drag.delta.x, f)
      y == t.y + PanOffset(cam.up.y, v.drag.delta.y, f) + PanOffset(cam.right.y, v.drag.delta.x, f)
      z == t.z + PanOffset(cam.up.z, v.drag.delta.y, f) + PanOffset(cam.right.z, v.drag.delta.x, f)
  IN  [v EXCEPT !.target.value = Vec3(clamp(x, lim.x.min, lim.x.max),
                                      clamp(y, lim.y.min, lim.y.max),
                                      clamp(z, lim.z.min, lim.z.max))]

\* update, lines 160-178: the drag delta rotates the raw angles.
ApplyOrbit(v, smallestSide) ==
  LET lim == v.spherical.limits
      theta == v.spherical.value.theta
                 - RoundDiv(v.drag.delta.x * dragSensitivity * Scale, smallestSide)
      phi == v.spherical.value.phi
                 - RoundDiv(v.drag.delta.y * dragSensitivity * Scale, smallestSide)
  IN  [v EXCEPT !.spherical.value.theta = clamp(theta, lim.theta.min, lim.theta.max),
                !.spherical.value.phi = clamp(phi, lim.phi.min, lim.phi.max)]

\* A drag step that trucks and rotates whatever the gesture is.
ApplyDragBoth(v, cam, smallestSide) ==
  ApplyOrbit(ApplyPan(v, cam), smallestSide)

\* update, line 129: the branch on drag.alternative.
ApplyDrag(v, cam, smallestSide) ==
  IF v.drag.alternative THEN ApplyPan(v, cam) ELSE ApplyOrbit(v, smallestSide)

\* A drain that forgets the zoom delta.
DrainGestureKeepsZoom(v) ==
  [v EXCEPT !.drag.delta = Vec2(0, 0)]

\* update, lines 180-181.
DrainGesture(v) ==
  [v EXCEPT !.drag.delta = Vec2(0, 0), !.zoom.delta = 0]

\* A smoothing step that writes the radius it computes into the raw value.
SmoothViewIntoRaw(v, deltaMillis) ==
  [v EXCEPT !.spherical.value.radius =
              Smooth(v.spherical.smoothed.radius, @, sphericalSmoothingRecip, deltaMillis)]

\* update, lines 183-208.
SmoothView(v, deltaMillis) ==
  LET sv == v.spherical.value
      ss == v.spherical.smoothed
      tv == v.target.value
      ts == v.target.smoothed
  IN  [v EXCEPT
        !.spherical.smoothed =
            [radius |-> Smooth(ss.radius, sv.radius, sphericalSmoothingRecip, deltaMillis),
             phi    |-> Smooth(ss.phi, sv.phi, sphericalSmoothingRecip, deltaMillis),
             theta  |-> Smooth(ss.theta, sv.theta, sphericalSmoothingRecip, deltaMillis)],
        !.target.smoothed =
            Vec3(Smooth(ts.x, tv.x, targetSmoothingRecip, deltaMillis),
                 Smooth(ts.y, tv.y, targetSmoothingRecip, deltaMillis),
                 Smooth(ts.z, tv.z, targetSmoothingRecip, deltaMillis))]

\* update, lines 210-221: the camera follows the damped view.
PlaceCamera(cam, v) ==
  LET p == setFromSpherical(v.spherical.smoothed)
      t == v.target.smoothed
  IN  [cam EXCEPT
        !.position = Vec3(p.x + t.x, p.y + t.y, p.z + t.z),
        !.zoom = IF cam.kind = "orthographic" THEN v.spherical.smoothed.radius ELSE @,
        !.up = lookAtUp(v.spherical.smoothed),
        !.right = lookAtRight(v.spherical.smoothed)]

UpdateView(v, cam, deltaMillis, smallestSide) ==
  SmoothView(DrainGesture(ApplyDrag(ApplyZoom(v), cam, smallestSide)), deltaMillis)

\* Nothing appended to the gesture accumulators yet.
NothingAppended ==
  [drag |-> Vec2(0, 0), zoom |-> 0, count |-> 0, orbit |-> Vec2(0, 0), pan |-> Vec2(0, 0)]

\* No pointer-down event is the last event.
NoEvent == [type |-> "none"]

\* What every handler and event shares: one more event, no DoubleCamera.
Handled(op) ==
  /\ events < MaxEvents
  /\ events' = events + 1
  /\ lastOp' = op
  /\ UNCHANGED <<camVars, clockVars, loadVars>>

\* Navigation.update(deltaMillis, smallestSide).
Update(deltaMillis, smallestSide) ==
  /\ Handled("update")
  /\ view' = UpdateView(view, camera, deltaMillis, smallestSide)
  /\ camera' = PlaceCamera(camera, view')
  /\ consumed' = [drag |-> view.drag.delta, zoom |-> view.zoom.delta,
                  alternative |-> view.drag.alternative,
                  deltaMillis |-> deltaMillis, smallestSide |-> smallestSide,
                  appends |-> appended.count]
  /\ appended' = NothingAppended
  /\ event' = NoEvent
  /\ UNCHANGED <<listeners, gesture>>

\* down(x, y) and move(x, y), lines 285-296.
down(v, x, y) == [v EXCEPT !.drag.previous = Vec2(x, y)]

\* A move that keeps only the latest delta.
moveOverwrites(v, x, y) ==
  [v EXCEPT !.drag.delta = Vec2(x - v.drag.previous.x, y - v.drag.previous.y),
            !.drag.previous = Vec2(x, y)]

move(v, x, y) ==
  [v EXCEPT !.drag.delta = Vec2(@.x + (x - v.drag.previous.x), @.y + (y - v.drag.previous.y)),
            !.drag.previous = Vec2(x, y)]

\* The pointer travel a move event reports since the last recorded position.
Travel(v, x, y) == Vec2(x - v.drag.previous.x, y - v.drag.previous.y)

\* The travel is also booked under the classification of the gesture that
\* is in progress when move appends it.
AppendDrag(d) ==
  [appended EXCEPT !.drag = Vec2(@.x + d.x, @.y + d.y), !.count = @ + 1,
                   !.orbit = IF view.drag.alternative THEN @ ELSE Vec2(@.x + d.x, @.y + d.y),
                   !.pan = IF view.drag.alternative THEN Vec2(@.x + d.x, @.y + d.y) ELSE @]

\* onMouseDown, lines 299-307.
IsAlternativeButton(button, ctrlKey, shiftKey) ==
  button = 1 \/ button = 2 \/ ctrlKey \/ shiftKey

OnMouseDown(button, ctrlKey, shiftKey, x, y) ==
  /\ Handled("mousedown")
  /\ view' = down([view EXCEPT !.drag.alternative = IsAlternativeButton(button, ctrlKey, shiftKey)],
                  x, y)
  /\ listeners' = listeners \cup {"mouseup", "mousemove"}
  /\ event' = [type |-> "mousedown", button |-> button, ctrlKey |-> ctrlKey,
               shiftKey |-> shiftKey]
  /\ gesture' = [gesture EXCEPT !.mouse = "active"]
  /\ UNCHANGED <<camera, consumed, appended>>

\* A mouseup that leaves the move listener on window.
mouseUpKeepsMove == {"mouseup"}

\* onMouseUp, lines 310-315: the listeners it removes.
mouseUpRemoves == {"mouseup", "mousemove"}

\* A mouseup on window; onMouseUp runs only while registered.
OnMouseUp ==
  /\ Handled("mouseup")
  /\ listeners' = IF "mouseup" \in listeners THEN listeners \ mouseUpRemoves ELSE listeners
  /\ gesture' = [gesture EXCEPT !.mouse = IF @ = "idle" THEN @ ELSE "ended"]
  /\ event' = NoEvent
  /\ UNCHANGED <<view, camera, consumed, appended>>

\* A mousemove on window; onMouseMove (lines 318-321) runs only while registered.
OnMouseMove(x, y) ==
  /\ Handled("mousemove")
  /\ IF "mousemove" \in listeners
     THEN /\ view' = move(view, x, y)
          /\ appended' = AppendDrag(Travel(view, x, y))
     ELSE UNCHANGED <<view, appended>>
  /\ event' = NoEvent
  /\ UNCHANGED <<camera, listeners, consumed, gesture>>

\* onTouchStart, lines 324-332.
OnTouchStart(touches, x, y) ==
  /\ Handled("touchstart")
  /\ view' = down([view EXCEPT !.drag.alternative = (touches > 1)], x, y)
  /\ listeners' = listeners \cup {"touchend", "touchmove"}
  /\ event' = [type |-> "touchstart", touches |-> touches]
  /\ gesture' = [gesture EXCEPT !.touch = "active"]
  /\ UNCHANGED <<camera, consumed, appended>>

\* A touchend on window; onTouchEnd (lines 335-340) runs only while registered.
OnTouchEnd ==
  /\ Handled("touchend")
  /\ listeners' = IF "touchend" \in listeners
                  THEN listeners \ {"touchend", "touchmove"} ELSE listeners
  /\ gesture' = [gesture EXCEPT !.touch = IF @ = "idle" THEN @ ELSE "ended"]
  /\ event' = NoEvent
  /\ UNCHANGED <<view, camera, consumed, appended>>

\* A touchmove on window; onTouchMove (lines 343-346) runs only while registered.
OnTouchMove(x, y) ==
  /\ Handled("touchmove")
  /\ IF "touchmove" \in listeners
     THEN /\ view' = move(view, x, y)
          /\ appended' = AppendDrag(Travel(view, x, y))
     ELSE UNCHANGED <<view, appended>>
  /\ event' = NoEvent
  /\ UNCHANGED <<camera, listeners, consumed, gesture>>

\* A touchcancel in place of the touchend: the constructor and onTouchStart
\* (lines 106-109, 330-331) register no handler for it.
OnTouchCancel ==
  /\ Handled("touchcancel")
  /\ gesture.touch = "active"
  /\ gesture' = [gesture EXCEPT !.touch = "cancelled"]
  /\ event' = NoEvent
  /\ UNCHANGED <<view, camera, listeners, consumed, appended>>

\* The window loses focus during a mouse drag, the button is released
\* elsewhere: no handler is registered for blur either.
OnBlur ==
  /\ Handled("blur")
  /\ gesture.mouse = "active"
  /\ gesture' = [gesture EXCEPT !.mouse = "cancelled"]
  /\ event' = NoEvent
  /\ UNCHANGED <<view, camera, listeners, consumed, appended>>

\* onWheel and zoomIn, lines 349-364: pixelY is normalizeWheel's result.
zoomIn(v, delta) == [v EXCEPT !.zoom.delta = @ + delta]

OnWheel(pixelY) ==
  /\ Handled("wheel")
  /\ view' = zoomIn(view, IF camera.kind = "orthographic" THEN -pixelY ELSE pixelY)
  /\ appended' = [appended EXCEPT
                    !.zoom = @ + (IF camera.kind = "orthographic" THEN -pixelY ELSE pixelY),
                    !.count = @ + 1]
  /\ event' = NoEvent
  /\ UNCHANGED <<camera, listeners, consumed, gesture>>

\* The loader variables while nothing is being loaded.
LoadIdle ==
  /\ paths = "none"
  /\ loads = "none"
  /\ promises = "none"
  /\ status = "none"
  /\ justLoaded = <<>>

\* The clock variables while no clock runs.
ClockIdle ==
  /\ clockKind = "none"
  /\ clock = "none"
  /\ timers = {}
  /\ nextTimer = 0
  /\ panel = "none"
  /\ userTime = "none"
  /\ clockOp = "none"
  /\ clockSteps = 0

\* The DoubleCamera variables while only a Navigation runs.
CamIdle ==
  /\ variant = "none"
  /\ mode = "none"
  /\ perspective = "none"
  /\ orthographic = "none"
  /\ controls = [initialized |-> FALSE]
  /\ lastPerspectiveZoom = 0
  /\ lastOrthoZoom = 0
  /\ orthoControls = [initialized |-> FALSE]
  /\ perspectiveControls = [initialized |-> FALSE]
  /\ reconfigureControls = FALSE
  /\ viewport = "none"
  /\ call = "none"
  /\ trip = "none"
  /\ calls = 0

NavInit ==
  /\ CamIdle
  /\ ClockIdle
  /\ LoadIdle
  /\ \E options \in NavigationOptionsSet : view = setInitialView(options)
  /\ \E kind \in CameraKinds : camera = NewCamera(kind)
  /\ listeners = {}
  /\ lastOp = "constructor"
  /\ consumed = [drag |-> Vec2(0, 0), zoom |-> 0, alternative |-> FALSE,
                 deltaMillis |-> 0, smallestSide |-> 0, appends |-> 0]
  /\ events = 0
  /\ event = NoEvent
  /\ gesture = [mouse |-> "idle", touch |-> "idle"]
  /\ appended = NothingAppended

NavNext ==
  \/ \E dt \in DeltaMillisSet, side \in SmallestSides : Update(dt, side)
  \/ \E e \in MouseDowns, p \in ClientPoints :
        OnMouseDown(e.button, e.ctrlKey, e.shiftKey, p.x, p.y)
  \/ OnMouseUp
  \/ \E p \in ClientPoints : OnMouseMove(p.x, p.y)
  \/ \E touches \in 1..2, p \in ClientPoints : OnTouchStart(touches, p.x, p.y)
  \/ OnTouchEnd
  \/ \E p \in ClientPoints : OnTouchMove(p.x, p.y)
  \/ OnTouchCancel
  \/ OnBlur
  \/ \E pixelY \in WheelPixels : OnWheel(pixelY)

SpecNav == NavInit /\ [][NavNext]_vars

----------------------------------------------------------------------------
(* three.js cameras and the camera-controls library, as DoubleCamera and   *)
(* the scene use them                                                      *)

Inf == 10 ^ 8

\* The result of 0 / 0.
NaN == -(10 ^ 9)

Perspective == "perspective"

Orthographic == "orthographic"

CameraModes == {Perspective, Orthographic}

NewPerspectiveCamera(fov, aspect, near, far) ==
  [fov |-> fov, aspect |-> aspect, near |-> near, far |-> far,
   zoom |-> Scale, position |-> Vec3(0, 0, 0)]

NewOrthographicCamera(left, right, top, bottom, near, far) ==
  [left |-> left, right |-> right, top |-> top, bottom |-> bottom,
   near |-> near, far |-> far, zoom |-> Scale, position |-> Vec3(0, 0, 0)]

Sub(a, b) == Vec3(a.x - b.x, a.y - b.y, a.z - b.z)

Add(a, b) == Vec3(a.x + b.x, a.y + b.y, a.z + b.z)

\* Vector3.distanceTo.
distanceTo(a, b) ==
  LET d == Sub(a, b)
  IN  Isqrt(d.x * d.x + d.y * d.y + d.z * d.z)

\* Spherical.setFromVector3.
setFromVector3(v) ==
  LET radius == Isqrt(v.x * v.x + v.y * v.y + v.z * v.z)
  IN  IF radius = 0
      THEN [radius |-> 0, phi |-> 0, theta |-> 0]
      ELSE [radius |-> radius,
            phi |-> Acos(clamp(RoundDiv(v.y * Scale, radius), -Scale, Scale)),
            theta |-> Atan2(v.x, v.z)]

NoBoundary == [set |-> FALSE]

\* new CameraControls(camera, domElement): the orbit is read off the camera.
NewCameraControls(kind, cam) ==
  [camera |-> kind,
   enabled |-> TRUE,
   target |-> Vec3(0, 0, 0),
   spherical |-> setFromVector3(cam.position),
   zoom |-> cam.zoom,
   minDistance |-> 0, maxDistance |-> Inf,
   minZoom |-> 10, maxZoom |-> Inf,
   minPolarAngle |-> 0, maxPolarAngle |-> Pi,
   minAzimuthAngle |-> -Inf, maxAzimuthAngle |-> Inf,
   boundary |-> NoBoundary,
   mouseButtons |-> [wheel |-> IF kind = Perspective THEN "DOLLY" ELSE "ZOOM"],
   touches |-> [two |-> IF kind = Perspective THEN "TOUCH_DOLLY_TRUCK" ELSE "TOUCH_ZOOM_TRUCK"]]

\* CameraControls.getPosition and getTarget (the end values).
getPosition(c) == Add(setFromSpherical(c.spherical), c.target)

getTarget(c) == c.target

\* Box3.clampPoint, for a target moved with a boundary set.
EncloseToBoundary(c, p) ==
  IF c.boundary = NoBoundary THEN p
  ELSE Vec3(clamp(p.x, c.boundary.min.x, c.boundary.max.x),
            clamp(p.y, c.boundary.min.y, c.boundary.max.y),
            clamp(p.z, c.boundary.min.z, c.boundary.max.z))

moveTo(c, x, y, z) == [c EXCEPT !.target = EncloseToBoundary(c, Vec3(x, y, z))]

rotateTo(c, azimuthAngle, polarAngle) ==
  [c EXCEPT !.spherical.theta = clamp(azimuthAngle, c.minAzimuthAngle, c.maxAzimuthAngle),
            !.spherical.phi = clamp(clamp(polarAngle, c.minPolarAngle, c.maxPolarAngle), 0, Pi)]

setAzimuthAngle(c, azimuthAngle) == rotateTo(c, azimuthAngle, c.spherical.phi)

setPolarAngle(c, polarAngle) == rotateTo(c, c.spherical.theta, polarAngle)

dollyTo(c, distance) ==
  [c EXCEPT !.spherical.radius = clamp(distance, c.minDistance, c.maxDistance)]

dolly(c, distance) == dollyTo(c, c.spherical.radius - distance)

zoomTo(c, zoom) == [c EXCEPT !.zoom = clamp(zoom, c.minZoom, c.maxZoom)]

zoom(c, zoomStep) == zoomTo(c, c.zoom + zoomStep)

\* setPosition(x, y, z) = setLookAt(x, y, z, target): the orbit is recomputed
\* from the position, without clamping.
setPosition(c, p) == [c EXCEPT !.spherical = setFromVector3(Sub(p, c.target))]

\* toJSON: the fields fromJSON reads back.
toJSON(c) ==
  [enabled |-> c.enabled,
   minDistance |-> c.minDistance, maxDistance |-> c.maxDistance,
   minZoom |-> c.minZoom, maxZoom |-> c.maxZoom,
   minPolarAngle |-> c.minPolarAngle, maxPolarAngle |-> c.maxPolarAngle,
   minAzimuthAngle |-> c.minAzimuthAngle, maxAzimuthAngle |-> c.maxAzimuthAngle,
   target |-> c.target, position |-> getPosition(c), zoom |-> c.zoom]

fromJSON(c, json) ==
  LET limited == [c EXCEPT !.enabled = json.enabled,
                           !.minDistance = json.minDistance,
                           !.maxDistance = json.maxDistance,
                           !.minZoom = json.minZoom,
                           !.maxZoom = json.maxZoom,
                           !.minPolarAngle = json.minPolarAngle,
                           !.maxPolarAngle = json.maxPolarAngle,
                           !.minAzimuthAngle = json.minAzimuthAngle,
                           !.maxAzimuthAngle = json.maxAzimuthAngle]
      moved == moveTo(limited, json.target.x, json.target.y, json.target.z)
      sph == setFromVector3(Sub(json.position, moved.target))
  IN  zoomTo(dollyTo(rotateTo(moved, sph.theta, sph.phi), sph.radius), json.zoom)

\* CameraControls.update, once settled: the driven camera takes the orbit
\* and the zoom of its controls.
ApplyControls(cam, c) ==
  [cam EXCEPT !.position = getPosition(c), !.zoom = c.zoom]

----------------------------------------------------------------------------
(* The scene's camera set-up (scene.ts, prepareCamera) and resize wiring    *)

MaxCalls == 6

Viewports ==
  { [width |-> 800, height |-> 600], [width |-> 1600, height |-> 600],
    [width |-> 600, height |-> 800] }

InitialViewport == [width |-> 800, height |-> 600]

orthoSize == 6500

Aspect(vp) == RoundDiv(vp.width * Scale, vp.height)

\* new DoubleCamera(CameraMode.Perspective, {perspective: [...], orthographic: [...]})
\* followed by camera.current.position.set(4, 4, 4).
ScenePerspective(vp) ==
  [NewPerspectiveCamera(75, Aspect(vp), 100, 1000 * Scale)
     EXCEPT !.position = Vec3(4000, 4000, 4000)]

SceneOrthographic(vp) ==
  NewOrthographicCamera(-RoundDiv(RoundDiv(orthoSize * Aspect(vp), Scale), 2),
                        RoundDiv(RoundDiv(orthoSize * Aspect(vp), Scale), 2),
                        RoundDiv(orthoSize, 2), -RoundDiv(orthoSize, 2),
                        -300 * Scale, 300 * Scale)

\* getPerspectiveResizeHandler's handler.
perspectiveResize(cam, width, height) ==
  [cam EXCEPT !.aspect = RoundDiv(width * Scale, height)]

\* A handler that lets the vertical extent follow the aspect too.
orthographicResizeScalesHeight(cam, width, height, size) ==
  LET aspect == RoundDiv(width * Scale, height)
      sizeMulAspect == RoundDiv(size * aspect, Scale)
  IN  [cam EXCEPT !.left = -RoundDiv(sizeMulAspect, 2),
                  !.right = RoundDiv(sizeMulAspect, 2),
                  !.top = RoundDiv(sizeMulAspect, 2),
                  !.bottom = -RoundDiv(sizeMulAspect, 2)]

\* getOrthographicResizeHandler's handler.
orthographicResize(cam, width, height, size) ==
  LET aspect == RoundDiv(width * Scale, height)
      sizeMulAspect == RoundDiv(size * aspect, Scale)
  IN  [cam EXCEPT !.left = -RoundDiv(sizeMulAspect, 2),
                  !.right = RoundDiv(sizeMulAspect, 2),
                  !.top = RoundDiv(size, 2),
                  !.bottom = -RoundDiv(size, 2)]

\* configure (scene.ts:1061-1078), run on both controls by initControls.
configure(c) ==
  LET box == [min |-> Vec3(-875, 0, -875), max |-> Vec3(875, 2500, 875)]
      bounded == [c EXCEPT !.boundary = box,
                           !.target = Vec3(clamp(c.target.x, box.min.x, box.max.x),
                                           clamp(c.target.y, box.min.y, box.max.y),
                                           clamp(c.target.z, box.min.z, box.max.z)),
                           !.minAzimuthAngle = -1571,
                           !.maxAzimuthAngle = 0,
                           !.maxPolarAngle = 1257]
  IN  setAzimuthAngle(bounded, -785)

\* configureForPerspective (scene.ts:1080-1087).
configureForPerspective(c) ==
  dolly(moveTo([c EXCEPT !.minDistance = 750, !.maxDistance = 5000], 0, 500, 0), 3000)

\* configureForOrthographic (scene.ts:1089-1096).
configureForOrthographic(c) ==
  zoom(moveTo([c EXCEPT !.minZoom = 1000, !.maxZoom = 8000], 0, 1000, 0), 750)

----------------------------------------------------------------------------
(* DoubleCamera                                                            *)

NoControls == [initialized |-> FALSE]

NoError == "none"

ControlsNotInitialized == "Controls not initialized."

NotAFunction == "TypeError: this.reconfigureControls is not a function"

\* Inputs through the controls' own listeners.
RotateSteps == { <<-300, 0>>, <<200, 150>> }

WheelScales == {50, 125}

TruckSteps == { Vec3(300, 0, 0), Vec3(0, -700, 300) }

\* get current (part_003:108-114, camera.ts:115-121), as the mode it names.
current == mode

CurrentCamera == IF mode = Perspective THEN perspective ELSE orthographic

\* Whether initControls has run (part_003:95, camera.ts:167).
ControlsReady ==
  IF variant = "single"
  THEN controls # NoControls
  ELSE orthoControls # NoControls /\ perspectiveControls # NoControls

\* The record of a call: its name and argument, the mode it found, whether it
\* found the controls initialized, how it ended and the callbacks it ran.
Called(op, arg, error, configured) ==
  [op |-> op, arg |-> arg, from |-> mode, ready |-> ControlsReady,
   error |-> error, configured |-> configured]

\* n / d as a zoom ratio; 0 / 0 is NaN.
Ratio(n, d) == IF d = 0 THEN NaN ELSE RoundDiv(n * Scale, d)

MathMin(a, b) == IF a = NaN \/ b = NaN THEN NaN ELSE Min2(a, b)

\* approximateOrthographicSizeFromPerspective (part_003:296-331), the planes
\* and the zoom it writes to the orthographic camera.
approximateOrthographicSizeFromPerspective(from, to, distance) ==
  LET fovInRadians == RoundDiv(from.fov * Pi, 180)
      half == RoundDiv(fovInRadians, 2)
      visibleHeight == RoundDiv(2 * RoundDiv(Sin(half) * Scale, Cos(half)) * distance, Scale)
      aspect == from.aspect
      top == RoundDiv(visibleHeight, 2)
      bottom == -RoundDiv(visibleHeight, 2)
      left == -RoundDiv(RoundDiv(visibleHeight * aspect, Scale), 2)
      right == RoundDiv(RoundDiv(visibleHeight * aspect, Scale), 2)
  IN  [to EXCEPT !.top = top, !.bottom = bottom, !.left = left, !.right = right,
                 !.zoom = MathMin(Ratio(right - left, RoundDiv(visibleHeight * aspect, Scale)),
                                  Ratio(top - bottom, visibleHeight))]

\* switchToPerspective (part_003:177-186), on the controls.
switchToPerspectiveControls(c, savedZoom) ==
  zoomTo([c EXCEPT !.mouseButtons.wheel = "DOLLY",
                   !.touches.two = "TOUCH_DOLLY_TRUCK",
                   !.camera = Perspective],
         savedZoom)

\* A switch to orthographic that leaves the wheel and two-finger bindings alone.
switchToOrthographicKeepsBindings(c, savedZoom) ==
  zoomTo([c EXCEPT !.camera = Orthographic], savedZoom)

\* switchToOrthographic (part_003:188-203), on the controls.
switchToOrthographicControls(c, savedZoom) ==
  zoomTo([c EXCEPT !.mouseButtons.wheel = "ZOOM",
                   !.touches.two = "TOUCH_ZOOM_TRUCK",
                   !.camera = Orthographic],
         savedZoom)

\* switchTo, part_003:171-174: the saved position and angles are put back.
restoreOrbit(c, position, azimuth, polar) ==
  setPolarAngle(setAzimuthAngle(setPosition(c, position), azimuth), polar)

\* switchTo's first test (part_003:156, camera.ts:163), and one that never
\* finds the mode unchanged.
NeverSameMode(newMode) == FALSE

SameMode(newMode) == newMode = mode

\* What the controls getter does without controls (part_003:95-97), and a
\* getter that lets the caller go on.
MissingControlsIgnored == NoError

MissingControls == ControlsNotInitialized

\* part_003:155-175.
switchTo1(newMode) ==
  IF SameMode(newMode)
  THEN /\ call' = Called("switchTo", newMode, NoError, {})
       /\ UNCHANGED <<mode, perspective, orthographic, controls,
                      lastPerspectiveZoom, lastOrthoZoom>>
  ELSE IF controls = NoControls
  THEN /\ call' = Called("switchTo", newMode, MissingControls, {})
       /\ UNCHANGED <<mode, perspective, orthographic, controls,
                      lastPerspectiveZoom, lastOrthoZoom>>
  ELSE LET azimuth == controls.spherical.theta
           polar == controls.spherical.phi
           position == getPosition(controls)
       IN  /\ IF newMode = Perspective
              THEN /\ lastOrthoZoom' = orthographic.zoom
                   /\ controls' = restoreOrbit(
                          switchToPerspectiveControls(controls, lastPerspectiveZoom),
                          position, azimuth, polar)
                   /\ UNCHANGED <<orthographic, lastPerspectiveZoom>>
              ELSE /\ orthographic' = approximateOrthographicSizeFromPerspective(
                          perspective, orthographic,
                          distanceTo(perspective.position, getTarget(controls)))
                   /\ lastPerspectiveZoom' = perspective.zoom
                   /\ controls' = restoreOrbit(
                          switchToOrthographicControls(controls, lastOrthoZoom),
                          position, azimuth, polar)
                   /\ UNCHANGED lastOrthoZoom
           /\ mode' = newMode
           /\ call' = Called("switchTo", newMode, NoError, {})
           /\ UNCHANGED perspective

\* part_003:212-219.
initControls1 ==
  /\ controls' = NewCameraControls(current, CurrentCamera)
  /\ call' = Called("initControls", mode, NoError, {})
  /\ UNCHANGED <<mode, perspective, orthographic, lastPerspectiveZoom, lastOrthoZoom>>

\* An update that writes the orbit and zoom to both cameras.
updateControls1DrivesBoth ==
  IF controls = NoControls
  THEN /\ call' = Called("updateControls", mode, ControlsNotInitialized, {})
       /\ UNCHANGED <<mode, perspective, orthographic, controls,
                      lastPerspectiveZoom, lastOrthoZoom>>
  ELSE /\ perspective' = ApplyControls(perspective, controls)
       /\ orthographic' = ApplyControls(orthographic, controls)
       /\ call' = Called("updateControls", mode, NoError, {})
       /\ UNCHANGED <<mode, controls, lastPerspectiveZoom, lastOrthoZoom>>

\* part_003:147-149.
updateControls1 ==
  IF controls = NoControls
  THEN /\ call' = Called("updateControls", mode, ControlsNotInitialized, {})
       /\ UNCHANGED <<mode, perspective, orthographic, controls,
                      lastPerspectiveZoom, lastOrthoZoom>>
  ELSE /\ perspective' = IF controls.camera = Perspective
                         THEN ApplyControls(perspective, controls) ELSE perspective
       /\ orthographic' = IF controls.camera = Orthographic
                          THEN ApplyControls(orthographic, controls) ELSE orthographic
       /\ call' = Called("updateControls", mode, NoError, {})
       /\ UNCHANGED <<mode, controls, lastPerspectiveZoom, lastOrthoZoom>>

\* The controls' listeners: a drag rotates, the wheel does what it is bound
\* to, a secondary drag trucks.  Controls that are not enabled ignore input.
UserRotate(c, step) ==
  IF c = NoControls THEN c
  ELSE IF ~c.enabled THEN c
  ELSE rotateTo(c, c.spherical.theta + step[1], c.spherical.phi + step[2])

UserWheel(c, percent) ==
  IF c = NoControls THEN c
  ELSE IF ~c.enabled THEN c
  ELSE IF c.mouseButtons.wheel = "DOLLY"
       THEN dollyTo(c, RoundDiv(c.spherical.radius * percent, 100))
       ELSE zoomTo(c, RoundDiv(c.zoom * percent, 100))

UserTruck(c, step) ==
  IF c = NoControls THEN c
  ELSE IF ~c.enabled THEN c
  ELSE moveTo(c, c.target.x + step.x, c.target.y + step.y, c.target.z + step.z)

\* get controls (camera.ts:96-107): the controls of the mode, or none.
controlsOfMode(m) == IF m = Perspective THEN perspectiveControls ELSE orthoControls

\* A hand-over that leaves the source enabled.
handOverSourceStaysEnabled(source) == source

\* switchTo, camera.ts:176-179: what becomes of the source and of the target.
handOverSource(source) == [source EXCEPT !.enabled = FALSE]

handOverTarget(source, target) ==
  [fromJSON(target, toJSON(source)) EXCEPT !.enabled = TRUE]

\* reconfigureControls (camera.ts:210-218), on the controls of mode m.
reconfigure(m, c) ==
  IF m = Perspective THEN configureForPerspective(c) ELSE configureForOrthographic(c)

ConfiguredFor(m) ==
  IF m = Perspective THEN {"configureForPerspective"} ELSE {"configureForOrthographic"}

\* camera.ts:162-184.
switchTo2(newMode) ==
  IF SameMode(newMode)
  THEN /\ call' = Called("switchTo", newMode, NoError, {})
       /\ UNCHANGED <<mode, perspective, orthographic, orthoControls,
                      perspectiveControls, reconfigureControls>>
  ELSE LET both == orthoControls # NoControls /\ perspectiveControls # NoControls
           source == controlsOfMode(mode)
           target == controlsOfMode(newMode)
           newSource == IF both THEN handOverSource(source) ELSE source
           newTarget == IF both THEN handOverTarget(source, target) ELSE target
           done == IF reconfigureControls THEN reconfigure(newMode, newTarget) ELSE newTarget
       IN  /\ mode' = newMode
           /\ perspectiveControls' = IF newMode = Perspective THEN done ELSE newSource
           /\ orthoControls' = IF newMode = Orthographic THEN done ELSE newSource
           /\ call' = IF reconfigureControls
                      THEN Called("switchTo", newMode, NoError, ConfiguredFor(newMode))
                      ELSE Called("switchTo", newMode, NotAFunction, {})
           /\ UNCHANGED <<perspective, orthographic, reconfigureControls>>

\* camera.ts:193-221, with the scene's three callbacks.
initControls2 ==
  LET ortho == configureForOrthographic(
                 [NewCameraControls(Orthographic, orthographic)
                    EXCEPT !.enabled = (mode = Orthographic)])
      persp == configureForPerspective(
                 [NewCameraControls(Perspective, perspective)
                    EXCEPT !.enabled = (mode = Perspective)])
  IN  /\ orthoControls' = configure(ortho)
      /\ perspectiveControls' = configure(persp)
      /\ reconfigureControls' = TRUE
      /\ call' = Called("initControls", mode, NoError,
                        {"configureForOrthographic", "configureForPerspective", "configure"})
      /\ UNCHANGED <<mode, perspective, orthographic>>

\* scene.ts:817-818: this.camera.controls.update(delta).
updateControls2 ==
  IF controlsOfMode(mode) = NoControls
  THEN /\ call' = Called("updateControls", mode, ControlsNotInitialized, {})
       /\ UNCHANGED <<mode, perspective, orthographic, orthoControls,
                      perspectiveControls, reconfigureControls>>
  ELSE /\ perspective' = IF mode = Perspective
                         THEN ApplyControls(perspective, perspectiveControls) ELSE perspective
       /\ orthographic' = IF mode = Orthographic
                          THEN ApplyControls(orthographic, orthoControls) ELSE orthographic
       /\ call' = Called("updateControls", mode, NoError, {})
       /\ UNCHANGED <<mode, orthoControls, perspectiveControls, reconfigureControls>>

----------------------------------------------------------------------------
(* The two DoubleCamera variants as one state machine                      *)

singleVars == <<controls, lastPerspectiveZoom, lastOrthoZoom>>

\* The controls that drive the perspective camera.
PerspectiveDriver == IF variant = "single" THEN controls ELSE perspectiveControls

NoTrip == [stage |-> 0]

\* What a round trip has to bring back: the orbit distance and zoom the next
\* frame gives the perspective camera, and the camera's own.
TripStart ==
  [stage |-> 1,
   distance |-> PerspectiveDriver.spherical.radius,
   zoom |-> PerspectiveDriver.zoom,
   cameraDistance |-> distanceTo(perspective.position, PerspectiveDriver.target),
   cameraZoom |-> perspective.zoom]

TripAfterSwitch(newMode) ==
  IF call'.error # NoError \/ newMode = mode \/ ~ControlsReady THEN NoTrip
  ELSE IF newMode = Orthographic THEN TripStart
  ELSE IF trip.stage = 1 THEN [trip EXCEPT !.stage = 2]
  ELSE NoTrip

doubleVars == <<orthoControls, perspectiveControls, reconfigureControls>>

SwitchTo(newMode) ==
  /\ calls < MaxCalls
  /\ calls' = calls + 1
  /\ IF variant = "single"
     THEN switchTo1(newMode) /\ UNCHANGED doubleVars
     ELSE switchTo2(newMode) /\ UNCHANGED singleVars
  /\ trip' = TripAfterSwitch(newMode)
  /\ UNCHANGED <<variant, viewport, navVars, clockVars, loadVars>>

InitControls ==
  /\ calls < MaxCalls
  /\ calls' = calls + 1
  /\ IF variant = "single"
     THEN initControls1 /\ UNCHANGED doubleVars
     ELSE initControls2 /\ UNCHANGED singleVars
  /\ trip' = NoTrip
  /\ UNCHANGED <<variant, viewport, navVars, clockVars, loadVars>>

UpdateControls ==
  /\ calls < MaxCalls
  /\ calls' = calls + 1
  /\ IF variant = "single"
     THEN updateControls1 /\ UNCHANGED doubleVars
     ELSE updateControls2 /\ UNCHANGED singleVars
  /\ trip' = NoTrip
  /\ UNCHANGED <<variant, viewport, navVars, clockVars, loadVars>>

\* updateCameras (scene.ts:1042-1050), on resize and orientationchange.
Resize(vp) ==
  /\ calls < MaxCalls
  /\ calls' = calls + 1
  /\ viewport' = vp
  /\ perspective' = IF mode = Perspective
                    THEN perspectiveResize(perspective, vp.width, vp.height)
                    ELSE perspective
  /\ orthographic' = IF mode = Orthographic
                     THEN orthographicResize(orthographic, vp.width, vp.height, orthoSize)
                     ELSE orthographic
  /\ call' = Called("resize", mode, NoError, {})
  /\ trip' = NoTrip
  /\ UNCHANGED <<variant, mode, singleVars, doubleVars, navVars, clockVars, loadVars>>

\* What every input through the controls' listeners has in common.
UserInput(op) ==
  /\ calls < MaxCalls
  /\ calls' = calls + 1
  /\ \/ controls # NoControls
     \/ orthoControls # NoControls
     \/ perspectiveControls # NoControls
  /\ call' = Called(op, mode, NoError, {})
  /\ trip' = NoTrip
  /\ UNCHANGED <<variant, mode, perspective, orthographic, lastPerspectiveZoom,
                 lastOrthoZoom, reconfigureControls, viewport, navVars, clockVars, loadVars>>

Rotate(step) ==
  /\ UserInput("rotate")
  /\ controls' = UserRotate(controls, step)
  /\ orthoControls' = UserRotate(orthoControls, step)
  /\ perspectiveControls' = UserRotate(perspectiveControls, step)

Wheel(percent) ==
  /\ UserInput("wheel")
  /\ controls' = UserWheel(controls, percent)
  /\ orthoControls' = UserWheel(orthoControls, percent)
  /\ perspectiveControls' = UserWheel(perspectiveControls, percent)

Truck(step) ==
  /\ UserInput("truck")
  /\ controls' = UserTruck(controls, step)
  /\ orthoControls' = UserTruck(orthoControls, step)
  /\ perspectiveControls' = UserTruck(perspectiveControls, step)

\* The Navigation variables while only a DoubleCamera runs.
NavIdle ==
  /\ view = "none"
  /\ camera = "none"
  /\ listeners = {}
  /\ lastOp = "none"
  /\ consumed = "none"
  /\ events = 0
  /\ event = "none"
  /\ gesture = "none"
  /\ appended = "none"

CamInit ==
  /\ NavIdle
  /\ ClockIdle
  /\ LoadIdle
  /\ variant \in {"single", "double"}
  /\ mode = Perspective
  /\ viewport = InitialViewport
  /\ perspective = ScenePerspective(InitialViewport)
  /\ orthographic = SceneOrthographic(InitialViewport)
  /\ controls = NoControls
  /\ lastPerspectiveZoom = Scale
  /\ lastOrthoZoom = Scale
  /\ orthoControls = NoControls
  /\ perspectiveControls = NoControls
  /\ reconfigureControls = FALSE
  /\ call = [op |-> "constructor", arg |-> Perspective, from |-> Perspective,
             ready |-> FALSE, error |-> NoError, configured |-> {}]
  /\ trip = NoTrip
  /\ calls = 0

CamNext ==
  \/ \E newMode \in CameraModes : SwitchTo(newMode)
  \/ InitControls
  \/ UpdateControls
  \/ \E vp \in Viewports : Resize(vp)
  \/ \E step \in RotateSteps : Rotate(step)
  \/ \E percent \in WheelScales : Wheel(percent)
  \/ \E step \in TruckSteps : Truck(step)

SpecCam == CamInit /\ [][CamNext]_vars

----------------------------------------------------------------------------
(* The clock and its settings panel (digital-clock.ts, clock.ts, scene.ts) *)

MaxClockSteps == 6

ClockKinds == {"digital-clock", "clock"}

\* What the panel's Hours and Minutes bindings are set to, and new Date()
\* when the scene starts.
PanelHours == {7, 23}

PanelMinutes == {0, 59}

StartTimes == { [hours |-> 12, minutes |-> 58], [hours |-> 23, minutes |-> 58] }

\* One minute later.
NextMinute(t) ==
  IF t.minutes < 59 THEN [t EXCEPT !.minutes = @ + 1]
  ELSE [hours |-> (t.hours + 1) % 24, minutes |-> 0]

\* The clock, the window's intervals and generalParams as one value.
ClockWorld == [clock |-> clock, timers |-> timers, nextTimer |-> nextTimer, panel |-> panel]

\* get synced (digital-clock.ts:52-54, clock.ts:42-44).
synced(c) == c.interval # -1

\* setTime (digital-clock.ts:130-153, clock.ts:101-114).
setTime(c, hours, minutes) ==
  IF clockKind = "digital-clock" /\ hours = c.hours /\ minutes = c.minutes
  THEN c
  ELSE [c EXCEPT !.hours = hours, !.minutes = minutes]

\* A clearInterval that clears nothing.
clearIntervalKeeps(active, id) == active

\* window.clearInterval(id).
clearInterval(active, id) == active \ {id}

\* A stop that forgets the interval without clearing it.
stopUserTimeSyncKeepsTicking(w) == [w EXCEPT !.clock.interval = -1]

\* stopUserTimeSync (digital-clock.ts:117-122, clock.ts:117-122): clock.ts
\* tests the id for truthiness, and -1 is truthy.
stopUserTimeSync(w) ==
  IF (clockKind = "digital-clock" /\ synced(w.clock))
       \/ (clockKind = "clock" /\ w.clock.interval # 0)
  THEN [w EXCEPT !.timers = clearInterval(@, w.clock.interval), !.clock.interval = -1]
  ELSE w

\* The interval's callback (digital-clock.ts:101-107, clock.ts:80-86).
callback(c, now) == setTime(c, now.hours, now.minutes)

\* syncWithUserTime(setNow = true) (digital-clock.ts:98-114, clock.ts:75-93).
syncWithUserTime(w, now) ==
  LET stopped == IF clockKind = "digital-clock" THEN stopUserTimeSync(w)
                 ELSE IF w.clock.interval # -1
                      THEN [w EXCEPT !.timers = clearInterval(@, w.clock.interval)]
                      ELSE w
      started == [stopped EXCEPT !.clock.interval = w.nextTimer,
                                 !.timers = @ \cup {w.nextTimer},
                                 !.nextTimer = @ + 1]
  IN  [started EXCEPT !.clock = callback(@, now)]

\* onClockChange (scene.ts:143-149).
onClockChange(w, hours, minutes) ==
  IF synced(w.clock) THEN w
  ELSE [w EXCEPT !.clock = setTime(@, hours, minutes)]

\* A binding's value is set, by the user or by setRawValue: generalParams is
\* written and, if the value changed, the change handler runs
\* (navigation.ts:427-440).
setBinding(w, field, value) ==
  IF w.panel[field] = value THEN w
  ELSE LET written == [w EXCEPT !.panel[field] = value]
       IN  onClockChange(written, written.panel.Hours, written.panel.Minutes)

\* onClockModeChange (scene.ts:133-141), with setUIValues (navigation.ts:417-420).
onClockModeChange(w, newMode, now) ==
  IF newMode = "current" THEN syncWithUserTime(w, now)
  ELSE stopUserTimeSync(
         setBinding(setBinding(w, "Hours", w.clock.hours), "Minutes", w.clock.minutes))

\* The world a clock event leaves behind.
ClockBecomes(w, op) ==
  /\ clockSteps < MaxClockSteps
  /\ clockSteps' = clockSteps + 1
  /\ clock' = w.clock
  /\ timers' = w.timers
  /\ nextTimer' = w.nextTimer
  /\ panel' = w.panel
  /\ clockOp' = op
  /\ UNCHANGED <<clockKind, navVars, camVars, loadVars>>

\* The Clock binding changes (navigation.ts:409-421).
ClockModeChange(newMode) ==
  /\ newMode # panel.Clock
  /\ ClockBecomes(onClockModeChange([ClockWorld EXCEPT !.panel.Clock = newMode],
                                    newMode, userTime),
                  [op |-> "mode", value |-> newMode])
  /\ UNCHANGED userTime

\* The user moves the Hours or the Minutes binding.
HoursChange(hours) ==
  /\ hours # panel.Hours
  /\ ClockBecomes(setBinding(ClockWorld, "Hours", hours), [op |-> "hours", value |-> hours])
  /\ UNCHANGED userTime

MinutesChange(minutes) ==
  /\ minutes # panel.Minutes
  /\ ClockBecomes(setBinding(ClockWorld, "Minutes", minutes),
                  [op |-> "minutes", value |-> minutes])
  /\ UNCHANGED userTime

\* An active interval fires its callback.
Tick(id) ==
  /\ id \in timers
  /\ ClockBecomes([ClockWorld EXCEPT !.clock = callback(@, userTime)],
                  [op |-> "tick", value |-> id])
  /\ UNCHANGED userTime

\* The system time moves on by a minute.
TimePasses ==
  /\ userTime' = NextMinute(userTime)
  /\ ClockBecomes(ClockWorld, [op |-> "time", value |-> 0])

\* The scene has built its clock and synced it (scene.ts:196, 910-911); the
\* panel shows generalParams' defaults (navigation.ts:369-374).
ClockInit ==
  /\ NavIdle
  /\ CamIdle
  /\ LoadIdle
  /\ clockKind \in ClockKinds
  /\ userTime \in StartTimes
  /\ LET built == [clock |-> [interval |-> -1, hours |-> 0, minutes |-> 0],
                   timers |-> {},
                   nextTimer |-> 1,
                   panel |-> [Clock |-> "current", Hours |-> 0, Minutes |-> 0]]
         w == syncWithUserTime(built, userTime)
     IN  /\ clock = w.clock
         /\ timers = w.timers
         /\ nextTimer = w.nextTimer
         /\ panel = w.panel
  /\ clockOp = [op |-> "constructor", value |-> 0]
  /\ clockSteps = 0

ClockNext ==
  \/ \E newMode \in {"current", "custom"} : ClockModeChange(newMode)
  \/ \E hours \in PanelHours : HoursChange(hours)
  \/ \E minutes \in PanelMinutes : MinutesChange(minutes)
  \/ \E id \in timers : Tick(id)
  \/ TimePasses

SpecClock == ClockInit /\ [][ClockNext]_vars

----------------------------------------------------------------------------
(* A DigitalClock whose owner calls syncWithUserTime and stopUserTimeSync   *)

\* new DigitalClock(..., sync) (digital-clock.ts:64-90, clock.ts:52-69): only
\* digital-clock.ts takes a sync argument and may start its interval.
NewDigitalClock(sync, now) ==
  LET built == [clock |-> [interval |-> -1, hours |-> 0, minutes |-> 0],
                timers |-> {},
                nextTimer |-> 1,
                panel |-> "none"]
  IN  IF sync /\ clockKind = "digital-clock" THEN syncWithUserTime(built, now) ELSE built

CallSyncWithUserTime ==
  /\ ClockBecomes(syncWithUserTime(ClockWorld, userTime), [op |-> "sync", value |-> 0])
  /\ UNCHANGED userTime

CallStopUserTimeSync ==
  /\ ClockBecomes(stopUserTimeSync(ClockWorld), [op |-> "stop", value |-> 0])
  /\ UNCHANGED userTime

SyncInit ==
  /\ NavIdle
  /\ CamIdle
  /\ LoadIdle
  /\ clockKind \in ClockKinds
  /\ userTime \in StartTimes
  /\ \E sync \in BOOLEAN :
       LET w == NewDigitalClock(sync, userTime)
       IN  /\ clock = w.clock
           /\ timers = w.timers
           /\ nextTimer = w.nextTimer
           /\ panel = w.panel
  /\ clockOp = [op |-> "constructor", value |-> 0]
  /\ clockSteps = 0

SyncNext ==
  \/ CallSyncWithUserTime
  \/ CallStopUserTimeSync
  \/ \E id \in timers : Tick(id)
  \/ TimePasses

SpecSync == SyncInit /\ [][SyncNext]_vars

----------------------------------------------------------------------------
(* asyncLoadResources (resources.ts)                                       *)

\* The values of a paths object, in key order: a string (a path to an asset)
\* or a nested paths object.
Path(name) == [path |-> name]

Nested(values) == [nested |-> values]

\* typeof value === "string".
IsString(value) == "path" \in DOMAIN value

\* The paths objects explored: flat, nested three deep, and with an empty
\* nested object next to a full one.
PathsObjects ==
  { <<Path("a"), Path("b"), Path("c")>>,
    <<Path("a"), Nested(<<Path("b"), Nested(<<Path("c")>>)>>)>>,
    <<Nested(<<Path("a"), Path("b")>>), Nested(<<>>), Path("c")>> }

RECURSIVE countResources(_)

\* A count that does not descend into nested objects.
countResourcesShallow(values) ==
  Cardinality({i \in 1..Len(values) : IsString(values[i])})

\* countResources (resources.ts:34-42).
countResources(values) ==
  IF values = <<>> THEN 0
  ELSE (IF IsString(Head(values)) THEN 1 ELSE countResources(Head(values).nested))
         + countResources(Tail(values))

\* Where the strings of a paths object are: the indices that lead to each.
RECURSIVE LeavesFrom(_, _, _)

LeavesFrom(values, prefix, i) ==
  IF i > Len(values) THEN {}
  ELSE (IF IsString(values[i]) THEN {Append(prefix, i)}
        ELSE LeavesFrom(values[i].nested, Append(prefix, i), 1))
         \cup LeavesFrom(values, prefix, i + 1)

Leaves(values) == LeavesFrom(values, <<>>, 1)

\* Where the objects are, recursiveLoadPaths is called once for each.
RECURSIVE ObjectsFrom(_, _, _)

ObjectsFrom(values, prefix, i) ==
  IF i > Len(values) THEN {prefix}
  ELSE (IF IsString(values[i]) THEN {}
        ELSE ObjectsFrom(values[i].nested, Append(prefix, i), 1))
         \cup ObjectsFrom(values, prefix, i + 1)

Objects(values) == ObjectsFrom(values, <<>>, 1)

RECURSIVE ValueAt(_, _)

ValueAt(values, position) ==
  IF Len(position) = 1 THEN values[position[1]]
  ELSE ValueAt(values[position[1]].nested, Tail(position))

\* The object a key belongs to.
Holder(position) == SubSeq(position, 1, Len(position) - 1)

ChildOf(position, object) == position # <<>> /\ Holder(position) = object

\* Promise.all(promises).then(resolve).catch(reject) (resources.ts:97-101): an
\* object's promise is rejected when a nested object's promise is, resolved
\* when every key's callback has returned; a settled promise stays as it is.
SettleOnce(pr, ld) ==
  [o \in DOMAIN pr |->
     IF pr[o] # "pending" THEN pr[o]
     ELSE IF \E c \in DOMAIN pr : ChildOf(c, o) /\ pr[c] = "rejected" THEN "rejected"
     ELSE IF /\ \A l \in DOMAIN ld : ChildOf(l, o) => ld[l] # "pending"
             /\ \A c \in DOMAIN pr : ChildOf(c, o) => pr[c] = "resolved"
          THEN "resolved"
     ELSE "pending"]

\* The microtask queue runs until it is empty.
RECURSIVE Drain(_, _)

Drain(pr, ld) ==
  IF SettleOnce(pr, ld) = pr THEN pr ELSE Drain(SettleOnce(pr, ld), ld)

\* loader.loadAsync(value).catch(reject) (resources.ts:81): a failed load
\* rejects the promise of the object that holds the key.
catch(pr, leaf, outcome) ==
  IF outcome = "failed" /\ pr[Holder(leaf)] = "pending"
  THEN [pr EXCEPT ![Holder(leaf)] = "rejected"]
  ELSE pr

\* The promise loadAsync returned for a key settles, and the callback of the
\* key goes on after its await (resources.ts:81-84).
LoadSettles(leaf, outcome) ==
  /\ loads' = [loads EXCEPT ![leaf] = outcome]
  /\ status' = [status EXCEPT !.count = @ + 1]
  /\ justLoaded' = Append(justLoaded, [leaf |-> leaf,
                                       path |-> ValueAt(paths, leaf).path,
                                       count |-> status'.count,
                                       total |-> status'.total])
  /\ promises' = Drain(catch(promises, leaf, outcome), loads')
  /\ UNCHANGED <<paths, navVars, camVars, clockVars>>

LoadResolves(leaf) ==
  /\ loads[leaf] = "pending"
  /\ LoadSettles(leaf, "loaded")

LoadRejects(leaf) ==
  /\ loads[leaf] = "pending"
  /\ LoadSettles(leaf, "failed")

\* asyncLoadResources(paths, loader, onJustLoaded) has returned its promise
\* (resources.ts:118-125): every loadAsync has been called.
LoadInit ==
  /\ NavIdle
  /\ CamIdle
  /\ ClockIdle
  /\ paths \in PathsObjects
  /\ loads = [l \in Leaves(paths) |-> "pending"]
  /\ promises = Drain([o \in Objects(paths) |-> "pending"], loads)
  /\ status = [count |-> 0, total |-> countResources(paths)]
  /\ justLoaded = <<>>

LoadNext ==
  \/ \E leaf \in DOMAIN loads : LoadResolves(leaf)
  \/ \E leaf \in DOMAIN loads : LoadRejects(leaf)

SpecLoad == LoadInit /\ [][LoadNext]_vars

----------------------------------------------------------------------------
(* Claims about Navigation                                                 *)

InRange(value, lim) == lim.min <= value /\ value <= lim.max

LimitsOrdered(v) ==
  /\ \A k \in {"radius", "phi", "theta"} :
        v.spherical.limits[k].min <= v.spherical.limits[k].max
  /\ \A k \in {"x", "y", "z"} : v.target.limits[k].min <= v.target.limits[k].max

RawWithinLimits(v) ==
  /\ \A k \in {"radius", "phi", "theta"} :
        InRange(v.spherical.value[k], v.spherical.limits[k])
  /\ \A k \in {"x", "y", "z"} : InRange(v.target.value[k], v.target.limits[k])

\* C1: after each update, with limits min <= max, the raw radius, phi, theta
\* and every axis of the raw target lie within their limits, in orbit and in
\* pan mode.
C1_ClampedAfterUpdate ==
  (lastOp = "update" /\ LimitsOrdered(view)) => RawWithinLimits(view)

\* C2: after every update the drag delta is (0, 0) and the zoom delta is 0.
C2_GestureDrained ==
  lastOp = "update" => (view.drag.delta = Vec2(0, 0) /\ view.zoom.delta = 0)

\* An update that read a non-zero drag delta and a non-zero zoom delta.
C2_Witness ==
  /\ lastOp = "update"
  /\ consumed.drag.x # 0
  /\ consumed.drag.y # 0
  /\ consumed.zoom # 0

Between(new, old, raw) ==
  (old <= new /\ new <= raw) \/ (raw <= new /\ new <= old)

\* C3: one smoothing step never moves a damped component past its raw value:
\* the new damped value lies between the old damped value and the raw value.
C3_NoOvershoot ==
  [][lastOp' = "update" =>
       /\ \A k \in {"radius", "phi", "theta"} :
             Between(view'.spherical.smoothed[k], view.spherical.smoothed[k],
                     view'.spherical.value[k])
       /\ \A k \in {"x", "y", "z"} :
             Between(view'.target.smoothed[k], view.target.smoothed[k],
                     view'.target.value[k])]_vars

\* The distance below which the fixed-point smoothing step rounds to nothing.
Epsilon == 20

\* C4: with the raw state held constant and a fixed elapsed time dt > 0, every
\* update strictly decreases each damped component's distance to its raw value
\* while that distance is not (within Epsilon of) zero.
C4_StrictlyCloser ==
  [][(/\ lastOp' = "update"
      /\ consumed'.deltaMillis > 0
      /\ view'.spherical.value = view.spherical.value
      /\ view'.target.value = view.target.value) =>
       /\ \A k \in {"radius", "phi", "theta"} :
             LET before == Abs(view.spherical.value[k] - view.spherical.smoothed[k])
                 after == Abs(view'.spherical.value[k] - view'.spherical.smoothed[k])
             IN  before > Epsilon => after < before
       /\ \A k \in {"x", "y", "z"} :
             LET before == Abs(view.target.value[k] - view.target.smoothed[k])
                 after == Abs(view'.target.value[k] - view'.target.smoothed[k])
             IN  before > Epsilon => after < before]_vars

\* C5: in every reachable state the raw radius and the damped radius are > 0,
\* and so is the zoom an orthographic camera copies from the damped radius.
C5_RadiusPositive ==
  /\ view.spherical.value.radius > 0
  /\ view.spherical.smoothed.radius > 0
  /\ camera.kind = "orthographic" => camera.zoom > 0

\* C11: a Navigation whose limits have min > max is rejected at construction:
\* no update ever runs, and clamps, against an inverted range.
C11_InvertedLimitsRejected ==
  lastOp = "update" => LimitsOrdered(view)

\* C12: a gesture is a pan exactly when it starts with the secondary button
\* (button 2), with Ctrl or Shift held, or with two or more touches; any
\* other button without modifiers and a single touch give an orbit.
C12_PanClassification ==
  /\ event.type = "mousedown" =>
       (view.drag.alternative <=> (event.button = 2 \/ event.ctrlKey \/ event.shiftKey))
  /\ event.type = "touchstart" =>
       (view.drag.alternative <=> event.touches >= 2)

\* C13: with no gesture begun, and after the mouseup (touchend) that ended
\* one, a mousemove (touchmove) does not change the drag delta.
C13_NoMoveOutsideGesture ==
  [][/\ (lastOp' = "mousemove" /\ gesture.mouse \in {"idle", "ended"})
          => view'.drag.delta = view.drag.delta
     /\ (lastOp' = "touchmove" /\ gesture.touch \in {"idle", "ended"})
          => view'.drag.delta = view.drag.delta]_vars

\* A mousemove after the mouseup of a drag that had moved.
C13_Witness ==
  /\ lastOp = "mousemove"
  /\ gesture.mouse = "ended"
  /\ view.drag.delta # Vec2(0, 0)
  /\ appended.count = 1

\* C14: however a drag ends, by up/end, touchcancel or blur, its listeners
\* are removed: none is registered while no gesture of its kind is active.
C14_NoListenersOutsideGesture ==
  /\ gesture.mouse # "active" => listeners \cap {"mouseup", "mousemove"} = {}
  /\ gesture.touch # "active" => listeners \cap {"touchend", "touchmove"} = {}

\* C17: update sets the raw radius to
\* clamp(radius + zoomDelta * zoomSensitivity, radius.min, radius.max).
C17_ZoomClamped ==
  [][lastOp' = "update" =>
       view'.spherical.value.radius =
         Max2(view.spherical.limits.radius.min,
              Min2(view.spherical.limits.radius.max,
                   view.spherical.value.radius + 5 * view.zoom.delta))]_vars

\* radius 5, radius.max 5, zoomDelta +50: the raw radius stays 5, not 5.25.
C17_Witness ==
  /\ lastOp = "update"
  /\ events = 2
  /\ consumed.zoom = 50
  /\ view.spherical.limits.radius.max = 5000
  /\ view.spherical.value.radius = 5000

\* C18: from azimuth 0, polar pi / 2 and a drag delta of (100, 0), with
\* sensitivity 1 and normalizing length 1000, one update makes the raw
\* azimuth -0.1, and under repeated updates with no further input the damped
\* azimuth comes within epsilon of -0.1.
C18_DampedAzimuthConverges ==
  <>(/\ view.spherical.value.theta = -100
     /\ Abs(view.spherical.smoothed.theta - (-100)) <= Epsilon)

\* C20: the deltas an update reads are the sums of the deltas the handlers
\* appended since the previous update, and it leaves none behind.
C20_DeltasConsumedOnce ==
  [][lastOp' = "update" =>
       /\ consumed'.drag = appended.drag
       /\ consumed'.zoom = appended.zoom
       /\ view'.drag.delta = Vec2(0, 0)
       /\ view'.zoom.delta = 0]_vars

\* An update that read the sum of several appended deltas.
C20_Witness ==
  /\ lastOp = "update"
  /\ consumed.appends >= 2
  /\ consumed.drag # Vec2(0, 0)

\* The raw orbit state and the damped one.
raw(v) == [spherical |-> v.spherical.value, target |-> v.target.value]

damped(v) == [spherical |-> v.spherical.smoothed, target |-> v.target.smoothed]

\* C21: the raw values update leaves behind are the ones its zoom and drag
\* steps computed, the smoothing step moves only the damped copies; every
\* handler leaves the raw state, the damped state and the camera as they
\* were and changes at most the gesture sample.
C21_OnlyUpdateMovesTheCamera ==
  [][/\ lastOp' = "update" =>
          raw(view') = raw(ApplyDrag(ApplyZoom(view), camera, consumed'.smallestSide))
     /\ lastOp' # "update" =>
          /\ raw(view') = raw(view)
          /\ damped(view') = damped(view)
          /\ view'.spherical.limits = view.spherical.limits
          /\ view'.target.limits = view.target.limits
          /\ camera' = camera]_vars

\* An update whose smoothing moved the damped radius part of the way to a raw
\* radius that a wheel event had asked for.
C21_Witness ==
  /\ lastOp = "update"
  /\ consumed.zoom # 0
  /\ consumed.deltaMillis = 16
  /\ view.spherical.smoothed.radius # view.spherical.value.radius
  /\ view.spherical.smoothed.radius # 5000
  /\ camera.position # Vec3(0, 0, 0)

\* C22: a drag delta consumed in pan mode leaves the raw azimuth and polar
\* angle as they were, one consumed in orbit mode leaves the raw target as it
\* was, and the raw radius is in both modes what the zoom step alone made it.
C22_DragMovesOnlyItsOwnState ==
  [][lastOp' = "update" =>
       /\ view.drag.alternative =>
            /\ view'.spherical.value.theta = view.spherical.value.theta
            /\ view'.spherical.value.phi = view.spherical.value.phi
       /\ ~view.drag.alternative => view'.target.value = view.target.value
       /\ view'.spherical.value.radius = ApplyZoom(view).spherical.value.radius
       /\ view.zoom.delta = 0 =>
            view'.spherical.value.radius =
              clamp(view.spherical.value.radius, view.spherical.limits.radius.min,
                    view.spherical.limits.radius.max)]_vars

\* A pan drag that moved the raw target, read by an update.
C22_Witness ==
  /\ lastOp = "update"
  /\ consumed.alternative
  /\ consumed.drag # Vec2(0, 0)
  /\ consumed.zoom = 0
  /\ view.target.value # Vec3(0, 1300, 0)

\* C23: an update that finds dragDelta = (0, 0) and zoomDelta = 0 leaves the
\* raw radius, polar angle, azimuth and target exactly as they were.
C23_ZeroDeltasAreANoOp ==
  [][(lastOp' = "update" /\ view.drag.delta = Vec2(0, 0) /\ view.zoom.delta = 0)
       => raw(view') = raw(view)]_vars

\* C28: the drag delta an update applies as a pan was appended by moves of
\* pan gestures only, and the one it applies as an orbit by moves of orbit
\* gestures only.
C28_DeltaKeepsItsClassification ==
  [][lastOp' = "update" =>
       /\ view.drag.alternative => appended.orbit = Vec2(0, 0)
       /\ ~view.drag.alternative => appended.pan = Vec2(0, 0)]_vars

----------------------------------------------------------------------------
(* Frames after an orbit drag, with no further input                       *)

\* Frame times of the render loop: a 60 Hz frame and a slow one.
FrameMillis == {16, 200}

\* A Navigation dragged to the corner azimuth 0, polar pi / 2 and settled there
\* (update(100, ...) makes the damped state equal the raw one), then moved by
\* (100, 0) while the primary button is held.
OrbitStartView ==
  LET v == setInitialView([initialRadius |-> 5000, limits |-> DefaultLimits])
      corner == [radius |-> 5000, phi |-> 1571, theta |-> 0]
  IN  [v EXCEPT !.spherical.value = corner,
                !.spherical.smoothed = corner,
                !.drag = [delta |-> Vec2(100, 0), previous |-> Vec2(200, 100),
                          alternative |-> FALSE]]

OrbitInit ==
  /\ CamIdle
  /\ ClockIdle
  /\ LoadIdle
  /\ view = OrbitStartView
  /\ \E kind \in CameraKinds : camera = PlaceCamera(NewCamera(kind), OrbitStartView)
  /\ listeners = {"mouseup", "mousemove"}
  /\ lastOp = "mousemove"
  /\ consumed = [drag |-> Vec2(-1000, -1000), zoom |-> 0, alternative |-> FALSE,
                 deltaMillis |-> 100, smallestSide |-> 1000, appends |-> 1]
  /\ events = 0
  /\ event = NoEvent
  /\ gesture = [mouse |-> "active", touch |-> "idle"]
  /\ appended = [drag |-> Vec2(100, 0), zoom |-> 0, count |-> 1,
                 orbit |-> Vec2(100, 0), pan |-> Vec2(0, 0)]

\* One frame of the render loop: Navigation.update(deltaMillis, smallestSide).
Frame(deltaMillis, smallestSide) ==
  /\ view' = UpdateView(view, camera, deltaMillis, smallestSide)
  /\ camera' = PlaceCamera(camera, view')
  /\ lastOp' = "update"
  /\ consumed' = [drag |-> view.drag.delta, zoom |-> view.zoom.delta,
                  alternative |-> view.drag.alternative,
                  deltaMillis |-> deltaMillis, smallestSide |-> smallestSide,
                  appends |-> appended.count]
  /\ appended' = NothingAppended
  /\ UNCHANGED <<listeners, events, event, gesture, camVars, clockVars, loadVars>>

OrbitNext == \E dt \in FrameMillis, side \in SmallestSides : Frame(dt, side)

\* The render loop keeps calling update.
SpecOrbit == OrbitInit /\ [][OrbitNext]_vars /\ WF_vars(OrbitNext)

----------------------------------------------------------------------------
(* Claims about DoubleCamera                                               *)

cameraState == <<mode, perspective, orthographic, controls, lastPerspectiveZoom,
                 lastOrthoZoom, orthoControls, perspectiveControls,
                 reconfigureControls>>

\* C6: switchTo with the mode the camera is already in changes nothing of the
\* DoubleCamera (mode, cameras, controls, saved zooms), runs no configure
\* callback and raises nothing.
C6_SwitchToSameModeIsNoOp ==
  [][(call'.op = "switchTo" /\ call'.arg = mode)
       => /\ UNCHANGED cameraState
          /\ call'.configured = {}
          /\ call'.error = NoError]_vars

\* A switchTo(current mode) on a camera whose controls exist and have been
\* moved off their initial state by an earlier, mode-changing switch.
C6_Witness ==
  /\ call.op = "switchTo"
  /\ call.from = call.arg
  /\ call.ready
  /\ mode = Orthographic

\* The controls that are live: the ones the scene updates every frame.
LiveControls == IF variant = "single" THEN controls ELSE controlsOfMode(mode)

\* C7: once the controls exist, the live controls drive the camera of the
\* current mode; with two controls, exactly the current mode's are enabled.
C7_OneLiveProjection ==
  ControlsReady =>
    /\ current \in CameraModes
    /\ LiveControls.camera = current
    /\ variant = "double" =>
         /\ controlsOfMode(current).enabled
         /\ \A m \in CameraModes \ {current} : ~controlsOfMode(m).enabled

\* Two controls after a switch to orthographic and a switch back.
C7_Witness ==
  /\ variant = "double"
  /\ ControlsReady
  /\ call.op = "switchTo"
  /\ call.from = Orthographic
  /\ call.arg = Perspective
  /\ call.error = NoError

AngleTolerance == 5

Near(a, b, tolerance) == Abs(a - b) <= tolerance

\* C8: a switchTo that changes the mode leaves the live controls with the
\* azimuth, the polar angle and the target the outgoing controls had.
C8_OrbitCarriedOver ==
  [][(call'.op = "switchTo" /\ call'.arg # mode /\ call'.error = NoError)
       => /\ Near(LiveControls'.spherical.theta, LiveControls.spherical.theta, AngleTolerance)
          /\ Near(LiveControls'.spherical.phi, LiveControls.spherical.phi, AngleTolerance)
          /\ LiveControls'.target = LiveControls.target]_vars

\* One percent of a, rounded up.
Percent(a) == (Abs(a) + 99) \div 100

\* C9: Perspective -> Orthographic -> Perspective with nothing in between
\* brings back the perspective camera's orbit distance and zoom within 1%.
C9_RoundTripRestores ==
  trip.stage = 2 =>
    /\ Near(PerspectiveDriver.spherical.radius, trip.distance, Percent(trip.distance))
    /\ Near(PerspectiveDriver.zoom, trip.zoom, Percent(trip.zoom))
    /\ Near(distanceTo(perspective.position, PerspectiveDriver.target),
            trip.cameraDistance, Percent(trip.cameraDistance))
    /\ Near(perspective.zoom, trip.cameraZoom, Percent(trip.cameraZoom))

HalfWidth(size, vp) == (size * vp.width) \div (2 * vp.height)

\* C15: whatever resizes and switchTo calls came before, the live projection
\* matches the viewport: perspective.aspect = width / height in Perspective
\* mode; top - bottom = size and (right - left) / (top - bottom) =
\* width / height in Orthographic mode.  Stated of camera.ts, whose switchTo
\* leaves the frustum planes to the resize handlers.
C15_LiveProjectionMatchesViewport ==
  (/\ variant = "double"
   /\ call.op \in {"switchTo", "resize"}
   /\ call.ready
   /\ call.error = NoError) =>
    /\ mode = Perspective => perspective.aspect = Aspect(viewport)
    /\ mode = Orthographic =>
         /\ orthographic.top - orthographic.bottom = orthoSize
         /\ Near(orthographic.right - orthographic.left,
                 2 * HalfWidth(orthoSize, viewport), 8)

\* C16: the orthographic resize handler sets top = size / 2, bottom = -size / 2,
\* right = size * aspect / 2 and left = -right; doubling the width at a fixed
\* height doubles left and right and leaves top and bottom alone.
C16_OrthographicResize ==
  [][(call'.op = "resize" /\ mode = Orthographic) =>
       /\ orthographic'.top = orthoSize \div 2
       /\ orthographic'.bottom = -(orthoSize \div 2)
       /\ orthographic'.left = -orthographic'.right
       /\ Near(orthographic'.right, HalfWidth(orthoSize, viewport'), 4)
       /\ (/\ viewport'.height = viewport.height
           /\ viewport'.width = 2 * viewport.width
           /\ orthographic.top - orthographic.bottom = orthoSize
           /\ Near(orthographic.right, HalfWidth(orthoSize, viewport), 4))
            => /\ Near(orthographic'.right, 2 * orthographic.right, 8)
               /\ Near(orthographic'.left, 2 * orthographic.left, 8)
               /\ orthographic'.top = orthographic.top
               /\ orthographic'.bottom = orthographic.bottom]_vars

\* The orthographic camera after the resize to 1600 x 600.
C16_Witness ==
  /\ call.op = "resize"
  /\ mode = Orthographic
  /\ viewport = [width |-> 1600, height |-> 600]
  /\ orthographic.top = 3250
  /\ orthographic.right > 8600

\* C24: in the single-controls variant, after a switchTo that changed the
\* mode the wheel is bound to DOLLY and two fingers to TOUCH_DOLLY_TRUCK in
\* Perspective, to ZOOM and TOUCH_ZOOM_TRUCK in Orthographic, and the controls
\* drive the camera of the new mode.
C24_BindingsMatchTheMode ==
  (/\ variant = "single"
   /\ call.op = "switchTo"
   /\ call.error = NoError
   /\ call.from # mode) =>
    /\ controls.camera = mode
    /\ mode = Perspective =>
         /\ controls.mouseButtons.wheel = "DOLLY"
         /\ controls.touches.two = "TOUCH_DOLLY_TRUCK"
    /\ mode = Orthographic =>
         /\ controls.mouseButtons.wheel = "ZOOM"
         /\ controls.touches.two = "TOUCH_ZOOM_TRUCK"

\* The single controls after the switch from Perspective to Orthographic.
C24_Witness ==
  /\ variant = "single"
  /\ call.op = "switchTo"
  /\ call.error = NoError
  /\ call.from = Perspective
  /\ mode = Orthographic
  /\ controls.mouseButtons.wheel = "ZOOM"

\* C25: a frame update, an input through the controls, a resize and
\* initControls leave the camera of the mode that is not active as it was;
\* only a switchTo changes it.
C25_InactiveProjectionRetained ==
  [][call'.op # "switchTo" =>
       /\ mode' = mode
       /\ mode = Perspective => orthographic' = orthographic
       /\ mode = Orthographic => perspective' = perspective]_vars

\* A frame update in Orthographic mode that moved the orthographic camera and
\* left the perspective camera where the scene had put it.
C25_Witness ==
  /\ call.op = "updateControls"
  /\ call.error = NoError
  /\ mode = Orthographic
  /\ orthographic.position # Vec3(0, 0, 0)
  /\ perspective.position = Vec3(4000, 4000, 4000)
  /\ perspective.zoom = Scale

\* C29: a switchTo that ends in an error leaves the mode and both cameras as
\* they were before the call.
C29_FailedSwitchChangesNothing ==
  [][(call'.op = "switchTo" /\ call'.error # NoError) =>
       /\ mode' = mode
       /\ perspective' = perspective
       /\ orthographic' = orthographic]_vars

----------------------------------------------------------------------------
(* Claims about asyncLoadResources *)

\* The onJustLoaded calls made for a key.
CallsFor(leaf) == {i \in 1..Len(justLoaded) : justLoaded[i].leaf = leaf}

C27_FailureRejectsWithoutCallback ==
  /\ (\E leaf \in Leaves(paths) : loads[leaf] = "failed") => promises[<<>>] = "rejected"
  /\ \A i \in 1..Len(justLoaded) : loads[justLoaded[i].leaf] # "failed"

----------------------------------------------------------------------------
(* Claims about the clock and its settings panel *)

\* The time the clock displays (get hours, get minutes).
displayed(c) == [hours |-> c.hours, minutes |-> c.minutes]

\* C19: while the panel's Clock is "current" the clock is synced: every tick
\* sets the displayed time to the system time and changes of the panel's
\* Hours and Minutes leave it alone.  Once "custom" is selected no interval
\* is left to tick, no tick changes the displayed time, and a change of Hours
\* or Minutes sets the displayed time to the panel's values.  Selecting
\* "current" again starts an interval and shows the system time.
C19_ClockFollowsItsMode ==
  [][ /\ synced(clock') <=> panel'.Clock = "current"
      /\ panel'.Clock = "current" => clock'.interval \in timers'
      /\ panel'.Clock = "custom" => timers' = {}
      /\ (clockOp'.op = "tick" /\ panel.Clock = "current")
           => displayed(clock') = userTime
      /\ (clockOp'.op = "tick" /\ panel.Clock = "custom")
           => displayed(clock') = displayed(clock)
      /\ (clockOp'.op \in {"hours", "minutes"} /\ panel.Clock = "current")
           => displayed(clock') = displayed(clock)
      /\ (clockOp'.op \in {"hours", "minutes"} /\ panel.Clock = "custom")
           => displayed(clock') = [hours |-> panel'.Hours, minutes |-> panel'.Minutes]
      /\ (clockOp'.op = "mode" /\ panel'.Clock = "current")
           => displayed(clock') = userTime
      /\ (clockOp'.op = "mode" /\ panel'.Clock = "custom")
           => displayed(clock') = displayed(clock)
    ]_vars

\* "custom" was selected after the system time had moved on, and the panel's
\* Hours then set a displayed time that is not the system time.
C19_Witness ==
  /\ clockOp.op = "hours"
  /\ panel.Clock = "custom"
  /\ ~synced(clock)
  /\ clock.hours = panel.Hours
  /\ clock.hours # userTime.hours
  /\ userTime \notin StartTimes

\* C30: after any sequence of syncWithUserTime and stopUserTimeSync calls at
\* most one interval is active, synced is true exactly when one is, the
\* active one is the clock's own (every earlier one has been cleared), and
\* after stopUserTimeSync none is active.
C30_AtMostOneTicker ==
  /\ Cardinality(timers) <= 1
  /\ synced(clock) <=> Cardinality(timers) = 1
  /\ timers \subseteq {clock.interval}
  /\ clockOp.op = "stop" => timers = {}

\* syncWithUserTime called twice in a row on a clock that was already synced:
\* the third interval is the only one left.
C30_Witness ==
  /\ clockOp.op = "sync"
  /\ clockSteps = 2
  /\ nextTimer = 4
  /\ timers = {3}
  /\ clock.interval = 3

============================================================================
